---- MODULE Spec2Model ----
(***************************************************************************)
(* A model of app.py, the Streamlit financial dashboard.                   *)
(*                                                                         *)
(* The script is run top to bottom once per render.  Spec models a         *)
(* session: the session state, the widgets, and one action per stretch of  *)
(* the script between two points where st.rerun() can end the render.      *)
(* SpecPerf applies get_comprehensive_stock_data to provider answers drawn *)
(* from bounded sets, and SpecBatch runs the loop of get_all_stocks_data    *)
(* over the portfolio.  SpecMA applies the technical-analysis block of the *)
(* dashboard to price series drawn from a bounded set.                     *)
(*                                                                         *)
(* Prices are integers.  A percentage (c - b) / b * 100 is kept as the     *)
(* exact fraction [num |-> (c - b) * 100, den |-> b]; a fraction whose den *)
(* is 0 is the result of a division by zero (numpy yields inf or nan and   *)
(* raises nothing).                                                        *)
(***************************************************************************)
EXTENDS Integers, Sequences, FiniteSets, TLC

VARIABLES
    \* ---- the session (Spec)
    session,            \* st.session_state: a dict, keys present only once set
    stock_input,        \* the sidebar text input (widget state, kept across runs)
    update_interval,    \* the sidebar slider (seconds)
    auto_refresh,       \* the "Auto-refresh (30s)" checkbox of tab 2
    stock1_symbol,      \* the first selectbox of tab 3
    stock2_symbol,      \* the second selectbox of tab 3
    event,              \* what started this run: a button click, the timer
                        \* rerun of the last line, or neither
    pc,                 \* where the script is
    now,                \* the wall clock, datetime.now()
    \* ---- the locals of the running script (Spec)
    stock_symbol,
    stock_changed,
    current_time,
    time_diff,
    should_refresh,
    forced,             \* force_refresh as line 476 found it
    data,               \* what get_comprehensive_stock_data returned
    calls,              \* the fetch functions this run has called, in order
    messages,           \* st.error / st.warning shown by this run, in order
    faulted,            \* the fetch functions in which a provider call raised
    \* ---- get_comprehensive_stock_data on its own (SpecPerf)
    p_in,
    p_out,
    \* ---- the loop of get_all_stocks_data (SpecBatch)
    b_i,                \* position in the portfolio of the next ticker
    b_resp,             \* what the provider answered for the tickers done
    all_data,           \* the rows appended so far
    \* ---- the technical analysis of the dashboard (SpecMA)
    m_in,               \* the closes of data['hist'], oldest first
    m_out               \* what the technical-analysis block produced

session_vars == <<session, stock_input, update_interval, auto_refresh,
                  stock1_symbol, stock2_symbol, event, pc, now>>
local_vars == <<stock_symbol, stock_changed, current_time, time_diff,
                should_refresh, forced, data, calls, messages, faulted>>
perf_vars == <<p_in, p_out>>
batch_vars == <<b_i, b_resp, all_data>>
ma_vars == <<m_in, m_out>>
vars == <<session_vars, local_vars, perf_vars, batch_vars, ma_vars>>

(***************************************************************************)
(* Bounds of the model and constants of the program.                       *)
(***************************************************************************)
MaxTicks == 3           \* the clock advances MaxTicks times
TickSeconds == 5        \* by this many seconds each time
MaxHist == 6            \* longest price series SpecPerf draws
MaxPrice == 2           \* largest price or close drawn
MaxSeries == 52         \* longest price series SpecMA draws

SliderMin == 5
SliderDefault == 10
AutoRefreshSleep == 30
FiveDayMin == 5
TechMinPoints == 20
MA20Window == 20
MA50Window == 50

MaxTime == MaxTicks * TickSeconds
Min(a, b) == IF a < b THEN a ELSE b

\* ---- dicts ---------------------------------------------------------------
EmptyDict == [k \in {} |-> 0]
Put(d, k, v) == [x \in DOMAIN d \cup {k} |-> IF x = k THEN v ELSE d[x]]
Del(d, k) == [x \in DOMAIN d \ {k} |-> d[x]]
Has(d, k) == k \in DOMAIN d
Get(d, k, default) == IF k \in DOMAIN d THEN d[k] ELSE default

\* ---- the data provider ------------------------------------------------------
(* What yfinance answers for one ticker: whether a call raises (fault: at   *)
(* Ticker(...).info or at .history(...)), the info dict (empty, without a   *)
(* regularMarketPrice, or a quote with that price) and, per lookback        *)
(* period, the closes of the history, oldest first.                         *)
Periods == {"1d", "5d", "1mo", "ytd", "1y", "max"}
Timeframes == {"Current", "5d", "30d", "YTD", "LTM", "Range"}

Answer(fault, info, price, hist) ==
    [fault |-> fault, info |-> info, price |-> price, hist |-> hist]

Raising == Answer("info", "empty", 0, [p \in Periods |-> <<>>])
NoQuote == Answer("none", "noprice", 0, [p \in Periods |-> <<>>])
Quote(price, series) == Answer("none", "quote", price, [p \in Periods |-> series])

\* info.get('regularMarketPrice') is not None
HasPrice(resp) == resp.info = "quote"

\* ---- percentages ---------------------------------------------------------------
\* ((current_price - start_price) / start_price * 100)
Pct(current_price, start_price) ==
    [num |-> (current_price - start_price) * 100, den |-> start_price]

\* ---- get_comprehensive_stock_data ----------------------------------------------
period_map(timeframe) ==
    CASE timeframe = "Current" -> "1d"
      [] timeframe = "5d" -> "5d"
      [] timeframe = "30d" -> "1mo"
      [] timeframe = "YTD" -> "ytd"
      [] timeframe = "LTM" -> "1y"
      [] timeframe = "Range" -> "max"
      [] OTHER -> "1d"

\* hist['Close'].iloc[-6] if len(hist) > 5 else hist['Close'].iloc[0]
FiveDayStart(hist) ==
    IF Len(hist) > FiveDayMin THEN hist[Len(hist) - 5] ELSE hist[1]

\* if start_price > 0: performance[key] = ...
GuardedEntryNoCheck(key, current_price, start_price) ==
    [k \in {key} |-> Pct(current_price, start_price)]
GuardedEntry(key, current_price, start_price) ==
    IF start_price > 0
    THEN [k \in {key} |-> Pct(current_price, start_price)]
    ELSE EmptyDict

\* the performance dict, lines 289-309
PerformanceAnyLength(current_price, hist, timeframe) ==
    IF Len(hist) = 0 \/ ~(current_price > 0) THEN EmptyDict
    ELSE IF timeframe = "5d"
         THEN GuardedEntry("5d", current_price, FiveDayStart(hist))
    ELSE IF timeframe = "30d" THEN GuardedEntry("30d", current_price, hist[1])
    ELSE IF timeframe = "YTD" THEN GuardedEntry("ytd", current_price, hist[1])
    ELSE IF timeframe = "LTM" THEN GuardedEntry("ltm", current_price, hist[1])
    ELSE EmptyDict
Performance(current_price, hist, timeframe) ==
    IF Len(hist) = 0 \/ ~(current_price > 0) THEN EmptyDict
    ELSE IF timeframe = "5d" /\ Len(hist) >= FiveDayMin
         THEN GuardedEntry("5d", current_price, FiveDayStart(hist))
    ELSE IF timeframe = "30d" /\ Len(hist) >= 1
         THEN GuardedEntry("30d", current_price, hist[1])
    ELSE IF timeframe = "YTD" /\ Len(hist) >= 1
         THEN GuardedEntry("ytd", current_price, hist[1])
    ELSE IF timeframe = "LTM" /\ Len(hist) >= 1
         THEN GuardedEntry("ltm", current_price, hist[1])
    ELSE EmptyDict

\* return None, after the st.error calls in errors
ReturnNone(symbol, errors) ==
    [ret |-> "None", symbol |-> symbol, price |-> 0,
     performance |-> EmptyDict, hist |-> <<>>, errors |-> errors]

\* whether yf.Ticker(symbol).info or .history(...) raises inside the function
RaisesInComprehensive(resp) ==
    resp.fault = "info" \/ (resp.fault = "history" /\ HasPrice(resp))

\* the function without its try: the exception leaves it
get_comprehensive_stock_data_uncaught(symbol, timeframe, resp) ==
    IF RaisesInComprehensive(resp)
    THEN [ret |-> "raise", symbol |-> symbol, price |-> 0,
          performance |-> EmptyDict, hist |-> <<>>, errors |-> <<>>]
    ELSE IF resp.info = "empty" \/ ~HasPrice(resp)
         THEN ReturnNone(symbol, <<"could_not_find", "hint_us", "hint_br">>)
    ELSE [ret |-> "dict", symbol |-> symbol, price |-> resp.price,
          performance |-> Performance(resp.price, resp.hist[period_map(timeframe)],
                                      timeframe),
          hist |-> resp.hist[period_map(timeframe)], errors |-> <<>>]

\* lines 262-330; ret is "dict" or "None" ("raise" would be an exception that
\* leaves the function)
get_comprehensive_stock_data(symbol, timeframe, resp) ==
    IF resp.fault = "info" THEN ReturnNone(symbol, <<"error_fetching">>)
    ELSE IF resp.info = "empty" \/ ~HasPrice(resp)
         THEN ReturnNone(symbol, <<"could_not_find", "hint_us", "hint_br">>)
    ELSE IF resp.fault = "history" THEN ReturnNone(symbol, <<"error_fetching">>)
    ELSE LET hist == resp.hist[period_map(timeframe)]
             current_price == resp.price
         IN  [ret |-> "dict", symbol |-> symbol, price |-> current_price,
              performance |-> Performance(current_price, hist, timeframe),
              hist |-> hist, errors |-> <<>>]

\* ---- get_all_stocks_data --------------------------------------------------------
(* ALL_STOCKS, flattened in the order the two loops visit it: <<sector,     *)
(* symbol>>.                                                                *)
ALL_STOCKS ==
    << <<"Bancos", "ITUB4.SA">>, <<"Bancos", "BBDC4.SA">>, <<"Bancos", "SANB11.SA">>,
       <<"Bancos", "BBAS3.SA">>, <<"Bancos", "BPAC11.SA">>,
       <<"Petroleo", "PETR4.SA">>, <<"Petroleo", "PETR3.SA">>,
       <<"Petroleo", "PRIO3.SA">>, <<"Petroleo", "RRRP3.SA">>,
       <<"Mineracao", "VALE3.SA">>, <<"Mineracao", "CSNA3.SA">>,
       <<"Mineracao", "USIM5.SA">>, <<"Mineracao", "GGBR4.SA">>,
       <<"Tecnologia", "AAPL">>, <<"Tecnologia", "GOOGL">>, <<"Tecnologia", "MSFT">>,
       <<"Tecnologia", "TSLA">>, <<"Tecnologia", "NVDA">>, <<"Tecnologia", "META">>,
       <<"Varejo", "MGLU3.SA">>, <<"Varejo", "LREN3.SA">>, <<"Varejo", "AMER3.SA">>,
       <<"Varejo", "VVAR3.SA">>,
       <<"Telecomunicacoes", "VIVT3.SA">>, <<"Telecomunicacoes", "TIMS3.SA">>,
       <<"Energia Eletrica", "ELET3.SA">>, <<"Energia Eletrica", "ELET6.SA">>,
       <<"Energia Eletrica", "CPFE3.SA">>, <<"Energia Eletrica", "ENBR3.SA">>,
       <<"Alimenticio", "JBSS3.SA">>, <<"Alimenticio", "BRFS3.SA">>,
       <<"Alimenticio", "MRFG3.SA">>,
       <<"Papel e Celulose", "SUZB3.SA">>, <<"Papel e Celulose", "KLBN11.SA">>,
       <<"Siderurgia", "GOAU4.SA">>, <<"Siderurgia", "CSNA3.SA">>,
       <<"Construcao", "MRVE3.SA">>, <<"Construcao", "CYRE3.SA">>,
       <<"Construcao", "EZTC3.SA">> >>

(* The tickers the model fetches: the loop runs over the entries of         *)
(* ALL_STOCKS with these symbols, in the order of ALL_STOCKS.               *)
ModelTickers == {"VALE3.SA", "CSNA3.SA", "GOAU4.SA"}
IsModelTicker(entry) == entry[2] \in ModelTickers
Portfolio == SelectSeq(ALL_STOCKS, IsModelTicker)

\* perf_x = 0; if <enough points>: perf_x = (current_price - first) / first * 100
Zero == [num |-> 0, den |-> 1]
BatchPerf(current_price, hist, more_than) ==
    IF Len(hist) > more_than THEN Pct(current_price, hist[1]) ELSE Zero

\* whether a provider call raises inside the try of the loop
RaisesInBatch(resp) ==
    resp.fault = "info" \/ (resp.fault = "history" /\ HasPrice(resp) /\ resp.price # 0)

\* the body of the loop for one ticker: the rows it appends (none or one)
StockRows(entry, resp) ==
    IF resp.fault = "info" THEN <<>>
    ELSE IF ~(HasPrice(resp) /\ resp.price # 0) THEN <<>>
    ELSE IF resp.fault = "history" THEN <<>>
    ELSE <<[Setor |-> entry[1], Simbolo |-> entry[2], Preco |-> resp.price,
            perf_5d |-> BatchPerf(resp.price, resp.hist["5d"], 1),
            perf_30d |-> BatchPerf(resp.price, resp.hist["1mo"], 0),
            perf_ytd |-> BatchPerf(resp.price, resp.hist["ytd"], 0),
            perf_1y |-> BatchPerf(resp.price, resp.hist["1y"], 0)]>>

\* the whole batch, given the provider's answer for every entry of Portfolio
RECURSIVE AllRows(_, _)
AllRows(resps, n) ==
    IF n = 0 THEN <<>>
    ELSE AllRows(resps, n - 1) \o StockRows(Portfolio[n], resps[n])
get_all_stocks_data(resps) == AllRows(resps, Len(Portfolio))

\* ---- compare_stocks -------------------------------------------------------------
\* whether a provider call raises inside compare_stocks
RaisesInCompare(resp1, resp2) == resp1.fault # "none" \/ resp2.fault # "none"

\* "None" is the tuple of four None, "tuple" the four values
compare_stocks(symbol1, symbol2, resp1, resp2, period) ==
    IF resp1.fault # "none" \/ resp2.fault # "none" THEN "None"
    ELSE IF Len(resp1.hist[period]) = 0 \/ Len(resp2.hist[period]) = 0 THEN "None"
    ELSE "tuple"

\* ---- the session: widgets and events ----------------------------------------------
InputSymbols == {"PETR4.SA", "AAPL"}        \* what the user types in the text input
SectorStocks == {"PETR4.SA", "AAPL"}        \* the sector buttons the user clicks
CompareSymbols == {"AAPL", "GOOGL"}         \* what the user picks in tab 3
Intervals == {SliderMin, SliderDefault}     \* where the user puts the slider
TimeframeButtons == {"5d"}                  \* the timeframe buttons the user clicks

NoEvent == [kind |-> "none", arg |-> ""]
TimerEvent == [kind |-> "timer", arg |-> ""]
Click(kind, arg) == [kind |-> kind, arg |-> arg]

\* what the provider may answer to the fetches of a render
TabAnswers ==
    {Raising, NoQuote, Quote(1, <<1>>),
     Answer("history", "quote", 1, [p \in Periods |-> <<>>])}
BatchAnswers == {Raising, Quote(1, <<1>>)}
CompareAnswers == {Raising, Quote(1, <<>>), Quote(1, <<1>>)}

PostDecision == {"tab1", "display", "tab2", "countdown", "tab3", "end", "idle"}

\* ---- the refresh decision, lines 469-483 ------------------------------------------
ShouldRefreshNoTimer(diff, interval, sess) ==
    \/ Get(sess, "force_refresh", FALSE)
    \/ ~Has(sess, "previous_stock")

ShouldRefresh(diff, interval, sess) ==
    \/ diff >= interval
    \/ Get(sess, "force_refresh", FALSE)
    \/ ~Has(sess, "previous_stock")

RecordRefreshKeepFlag(sess, time) == Put(sess, "last_update", time)
RecordRefresh(sess, time) ==
    Put(Put(sess, "last_update", time), "force_refresh", FALSE)

\* lines 99-106: the session after the comparison with previous_stock
TrackStockNoForce(sess, symbol) == Put(sess, "previous_stock", symbol)
TrackStock(sess, symbol) ==
    LET s1 == IF Has(sess, "previous_stock") THEN sess
              ELSE Put(sess, "previous_stock", symbol)
    IN  IF s1["previous_stock"] # symbol
        THEN Put(Put(s1, "previous_stock", symbol), "force_refresh", TRUE)
        ELSE s1

\* ---- the script --------------------------------------------------------------------
FreshLocals ==
    /\ stock_symbol' = ""
    /\ stock_changed' = FALSE
    /\ current_time' = 0
    /\ time_diff' = 0
    /\ should_refresh' = FALSE
    /\ forced' = FALSE
    /\ data' = "unset"
    /\ calls' = <<>>
    /\ messages' = <<>>
    /\ faulted' = {}

\* st.rerun(): the run stops here and the script starts again, no button pressed
Rerun ==
    /\ pc' = "sidebar"
    /\ event' = NoEvent
    /\ FreshLocals

Idle == <<perf_vars, batch_vars, ma_vars>>
Widgets == <<stock_input, update_interval, auto_refresh, stock1_symbol, stock2_symbol>>

\* lines 53-56
LoadButton ==
    /\ pc = "sidebar"
    /\ event.kind = "load"
    /\ session' = Put(session, "force_refresh", TRUE)
    /\ Rerun
    /\ UNCHANGED <<Widgets, now, Idle>>

\* lines 46-51 and 61-91
SectorButtons ==
    /\ pc = "sidebar"
    /\ event.kind # "load"
    /\ stock_symbol' = stock_input
    /\ session' = IF event.kind = "sector"
                  THEN Put(Put(session, "selected_stock", event.arg),
                           "force_refresh", TRUE)
                  ELSE session
    /\ pc' = "select"
    /\ UNCHANGED <<Widgets, event, now, Idle, stock_changed, current_time,
                   time_diff, should_refresh, forced, data, calls, messages, faulted>>

\* selected_stock left in the session
SelectStockSticky ==
    /\ pc = "select"
    /\ LET symbol == IF Has(session, "selected_stock")
                     THEN session["selected_stock"] ELSE stock_symbol
       IN  /\ stock_symbol' = symbol
           /\ stock_changed' = (Has(session, "previous_stock")
                                /\ session["previous_stock"] # symbol)
           /\ session' = TrackStock(session, symbol)
    /\ pc' = "decide"
    /\ UNCHANGED <<Widgets, event, now, Idle, current_time, time_diff,
                   should_refresh, forced, data, calls, messages, faulted>>

\* lines 93-106
SelectStock ==
    /\ pc = "select"
    /\ LET symbol == IF Has(session, "selected_stock")
                     THEN session["selected_stock"] ELSE stock_symbol
           s1 == Del(session, "selected_stock")
       IN  /\ stock_symbol' = symbol
           /\ stock_changed' = (Has(s1, "previous_stock")
                                /\ s1["previous_stock"] # symbol)
           /\ session' = TrackStock(s1, symbol)
    /\ pc' = "decide"
    /\ UNCHANGED <<Widgets, event, now, Idle, current_time, time_diff,
                   should_refresh, forced, data, calls, messages, faulted>>

\* lines 459-483
Decide ==
    /\ pc = "decide"
    /\ LET s1 == IF Has(session, "last_update") THEN session
                 ELSE Put(session, "last_update", now)
           s2 == IF Has(s1, "selected_timeframe") THEN s1
                 ELSE Put(s1, "selected_timeframe", "Current")
           diff == now - s2["last_update"]
           refresh == ShouldRefresh(diff, update_interval, s2)
       IN  /\ current_time' = now
           /\ time_diff' = diff
           /\ should_refresh' = refresh
           /\ forced' = Get(s2, "force_refresh", FALSE)
           /\ session' = IF refresh THEN RecordRefresh(s2, now) ELSE s2
    /\ pc' = "tab1"
    /\ UNCHANGED <<Widgets, event, now, Idle, stock_symbol, stock_changed,
                   data, calls, messages, faulted>>

\* lines 488-494: the call and what is done with its result
FetchStock ==
    \E resp \in TabAnswers :
      LET r == get_comprehensive_stock_data(
                   stock_symbol, session["selected_timeframe"], resp)
      IN  /\ calls' = Append(calls, "get_comprehensive_stock_data")
          /\ faulted' = IF RaisesInComprehensive(resp)
                        THEN faulted \cup {"get_comprehensive_stock_data"}
                        ELSE faulted
          /\ IF r.ret = "raise"
             THEN /\ pc' = "crashed"
                  /\ messages' = messages \o r.errors
                  /\ data' = data
             ELSE /\ data' = r.ret
                  /\ messages' = messages \o r.errors \o
                         (IF r.ret = "None" THEN <<"unable_to_load">> ELSE <<>>)
                  /\ pc' = IF r.ret = "dict" THEN "display" ELSE "tab2"

Tab1FetchOnRefresh ==
    /\ pc = "tab1"
    /\ IF should_refresh THEN FetchStock
       ELSE /\ data' = "None"
            /\ pc' = "tab2"
            /\ UNCHANGED <<calls, messages, faulted>>
    /\ UNCHANGED <<session, Widgets, event, now, Idle, stock_symbol, stock_changed,
                   current_time, time_diff, should_refresh, forced>>

\* lines 486-494, up to the call of display_comprehensive_dashboard
Tab1Fetch ==
    /\ pc = "tab1"
    /\ FetchStock
    /\ UNCHANGED <<session, Widgets, event, now, Idle, stock_symbol, stock_changed,
                   current_time, time_diff, should_refresh, forced>>

\* lines 357-361: a timeframe button of the dashboard was clicked
TimeframeButton ==
    /\ pc = "display"
    /\ event.kind = "tf"
    /\ session' = Put(session, "selected_timeframe", event.arg)
    /\ Rerun
    /\ UNCHANGED <<Widgets, now, Idle>>

\* lines 333-457 otherwise: the dashboard is drawn
Display ==
    /\ pc = "display"
    /\ event.kind # "tf"
    /\ pc' = "tab2"
    /\ UNCHANGED <<session, Widgets, event, now, Idle, local_vars>>

\* lines 504-505
TableRefreshButton ==
    /\ pc = "tab2"
    /\ event.kind = "refresh_table"
    /\ Rerun
    /\ UNCHANGED <<session, Widgets, now, Idle>>

\* lines 509-587, up to the countdown; the sector filter stays on 'Todos'
Tab2Fetch ==
    /\ pc = "tab2"
    /\ event.kind # "refresh_table"
    /\ \E resps \in [1..Len(Portfolio) -> BatchAnswers] :
         LET all_stocks_df == get_all_stocks_data(resps)
         IN  /\ calls' = Append(calls, "get_all_stocks_data")
             /\ faulted' = IF \E i \in DOMAIN resps : RaisesInBatch(resps[i])
                           THEN faulted \cup {"get_all_stocks_data"}
                           ELSE faulted
             /\ messages' = IF all_stocks_df = <<>>
                            THEN Append(messages, "table_not_loaded") ELSE messages
             /\ session' = IF all_stocks_df # <<>>
                           THEN Put(session, "selected_sector", "Todos") ELSE session
             /\ pc' = IF all_stocks_df # <<>> /\ auto_refresh
                      THEN "countdown" ELSE "tab3"
    /\ UNCHANGED <<Widgets, event, now, Idle, stock_symbol, stock_changed,
                   current_time, time_diff, should_refresh, forced, data>>

\* lines 574-581: thirty sleeps of a second, then st.rerun(); the clock of the
\* model stops at MaxTime
AutoRefreshTable ==
    /\ pc = "countdown"
    /\ now' = Min(now + AutoRefreshSleep, MaxTime)
    /\ Rerun
    /\ UNCHANGED <<session, Widgets, Idle>>

\* lines 620-700: the call and what is done with its result
Compare ==
    \E resp1, resp2 \in CompareAnswers :
      LET r == compare_stocks(stock1_symbol, stock2_symbol, resp1, resp2, "1mo")
          shown == r = "tuple" /\ resp1.info # "empty" /\ resp2.info # "empty"
      IN  /\ calls' = Append(calls, "compare_stocks")
          /\ faulted' = IF RaisesInCompare(resp1, resp2)
                        THEN faulted \cup {"compare_stocks"}
                        ELSE faulted
          /\ IF r = "raise"
             THEN /\ pc' = "crashed"
                  /\ messages' = messages
             ELSE /\ pc' = "end"
                  /\ messages' = IF shown THEN messages
                                 ELSE Append(messages, "comparison_failed")

CompareButtonCallFirst ==
    /\ pc = "tab3"
    /\ event.kind = "compare"
    /\ IF stock1_symbol # stock2_symbol
       THEN Compare
       ELSE /\ calls' = Append(calls, "compare_stocks")
            /\ messages' = Append(messages, "select_two_different")
            /\ faulted' = faulted
            /\ pc' = "end"
    /\ UNCHANGED <<session, Widgets, event, now, Idle, stock_symbol, stock_changed,
                   current_time, time_diff, should_refresh, forced, data>>

\* lines 618-702, the button clicked
CompareButton ==
    /\ pc = "tab3"
    /\ event.kind = "compare"
    /\ IF stock1_symbol # stock2_symbol
       THEN Compare
       ELSE /\ calls' = calls
            /\ messages' = Append(messages, "select_two_different")
            /\ faulted' = faulted
            /\ pc' = "end"
    /\ UNCHANGED <<session, Widgets, event, now, Idle, stock_symbol, stock_changed,
                   current_time, time_diff, should_refresh, forced, data>>

\* line 618, the button not clicked
NoCompare ==
    /\ pc = "tab3"
    /\ event.kind # "compare"
    /\ pc' = "end"
    /\ UNCHANGED <<session, Widgets, event, now, Idle, local_vars>>

\* lines 726-728
TimerFires == time_diff >= update_interval /\ ~Get(session, "force_refresh", FALSE)

TimerRerun ==
    /\ pc = "end"
    /\ TimerFires
    /\ pc' = "sidebar"
    /\ event' = TimerEvent
    /\ FreshLocals
    /\ UNCHANGED <<session, Widgets, now, Idle>>

\* the script reaches its last line: its locals are gone, the page (with the
\* dashboard and its timeframe buttons if data was loaded) waits for the user
Finish ==
    /\ pc = "end"
    /\ ~TimerFires
    /\ pc' = "idle"
    /\ event' = NoEvent
    /\ stock_symbol' = ""
    /\ stock_changed' = FALSE
    /\ current_time' = 0
    /\ time_diff' = 0
    /\ should_refresh' = FALSE
    /\ forced' = FALSE
    /\ calls' = <<>>
    /\ messages' = <<>>
    /\ faulted' = {}
    /\ UNCHANGED <<session, Widgets, now, Idle, data>>

\* ---- the user and the clock ---------------------------------------------------------
\* a new run starts with the widget values as the user left them
NewRun(click) ==
    /\ pc = "idle"
    /\ pc' = "sidebar"
    /\ event' = click
    /\ FreshLocals

TypeSymbol ==
    /\ \E s \in InputSymbols \ {stock_input} : stock_input' = s
    /\ NewRun(NoEvent)
    /\ UNCHANGED <<session, update_interval, auto_refresh, stock1_symbol,
                   stock2_symbol, now, Idle>>

MoveSlider ==
    /\ \E i \in Intervals \ {update_interval} : update_interval' = i
    /\ NewRun(NoEvent)
    /\ UNCHANGED <<session, stock_input, auto_refresh, stock1_symbol,
                   stock2_symbol, now, Idle>>

ToggleAutoRefresh ==
    /\ auto_refresh' = ~auto_refresh
    /\ NewRun(NoEvent)
    /\ UNCHANGED <<session, stock_input, update_interval, stock1_symbol,
                   stock2_symbol, now, Idle>>

PickFirstStock ==
    /\ \E s \in CompareSymbols \ {stock1_symbol} : stock1_symbol' = s
    /\ NewRun(NoEvent)
    /\ UNCHANGED <<session, stock_input, update_interval, auto_refresh,
                   stock2_symbol, now, Idle>>

PressButton ==
    /\ \E click \in {Click("load", ""), Click("refresh_table", ""), Click("compare", "")}
                    \cup {Click("sector", s) : s \in SectorStocks}
                    \cup {Click("tf", t) : t \in TimeframeButtons} :
         /\ click.kind = "tf" => data = "dict"
         /\ NewRun(click)
    /\ UNCHANGED <<session, Widgets, now, Idle>>

Tick ==
    /\ now + TickSeconds <= MaxTime
    /\ now' = now + TickSeconds
    /\ UNCHANGED <<session, Widgets, event, pc, Idle, local_vars>>

IdleInit ==
    /\ p_in = <<>>
    /\ p_out = <<>>
    /\ b_i = 0
    /\ b_resp = <<>>
    /\ all_data = <<>>
    /\ m_in = <<>>
    /\ m_out = <<>>

SessionInit ==
    /\ session = EmptyDict
    /\ stock_input = "PETR4.SA"
    /\ update_interval = SliderDefault
    /\ auto_refresh = FALSE
    /\ stock1_symbol = "AAPL"
    /\ stock2_symbol = "GOOGL"
    /\ event = NoEvent
    /\ pc = "sidebar"
    /\ now = 0
    /\ stock_symbol = ""
    /\ stock_changed = FALSE
    /\ current_time = 0
    /\ time_diff = 0
    /\ should_refresh = FALSE
    /\ forced = FALSE
    /\ data = "unset"
    /\ calls = <<>>
    /\ messages = <<>>
    /\ faulted = {}

Init == SessionInit /\ IdleInit

Next ==
    \/ LoadButton
    \/ SectorButtons
    \/ SelectStock
    \/ Decide
    \/ Tab1Fetch
    \/ TimeframeButton
    \/ Display
    \/ TableRefreshButton
    \/ Tab2Fetch
    \/ AutoRefreshTable
    \/ CompareButton
    \/ NoCompare
    \/ TimerRerun
    \/ Finish
    \/ TypeSymbol
    \/ MoveSlider
    \/ ToggleAutoRefresh
    \/ PickFirstStock
    \/ PressButton
    \/ Tick

Spec == Init /\ [][Next]_vars

(***************************************************************************)
(* The claims about the session, checked under Spec.                       *)
(***************************************************************************)
Called(f) == \E i \in 1..Len(calls) : calls[i] = f
Shown(m) == \E i \in 1..Len(messages) : messages[i] = m
Decided == pc \in PostDecision \ {"idle"}

\* C1 (as claimed): the decision of the first render of a session, the one that
\* finds no last_update in the session state, is true.
C1_FirstRenderRefreshes ==
    [][(pc = "decide" /\ pc' = "tab1" /\ ~Has(session, "last_update")
        /\ ~Has(session, "force_refresh") /\ event.kind = "none")
       => should_refresh']_vars

\* C2: in a render whose selected symbol differs from the recorded
\* previous_stock, the refresh decision of that render is true.
C2_SymbolChangeRefreshes == (Decided /\ stock_changed) => should_refresh

\* C2 witness: the symbol typed in the text input changed, less than the update
\* interval has passed since last_update, and the decision is true.
C2_Witness ==
    /\ Decided
    /\ stock_changed
    /\ event.kind = "none"
    /\ time_diff < update_interval
    /\ should_refresh

C4_FetchOnlyOnRefresh == Called("get_comprehensive_stock_data") => should_refresh

\* C4 (amended): the individual-stock fetch is made after the decision, and every
\* render that gets past tab 1 has made it, whatever the decision was.
C4_FetchEveryRender ==
    /\ Called("get_comprehensive_stock_data") => Decided
    /\ pc \in {"display", "tab2", "countdown", "tab3", "end"}
         => Called("get_comprehensive_stock_data")

\* C4 witness: a render that decided not to refresh and fetched all the same.
C4_Witness ==
    /\ pc = "tab2"
    /\ ~should_refresh
    /\ calls = <<"get_comprehensive_stock_data">>

\* C7 (as claimed): when a comparison of a symbol with itself is rejected, the
\* render has made no network call.
C7_NoCallBeforeRejection == Shown("select_two_different") => calls = <<>>

\* C7 (amended): when a comparison of a symbol with itself is rejected,
\* compare_stocks has not been called; the calls the render has made are the
\* individual-stock fetch and the portfolio batch, both before the rejection.
C7_RejectedWithoutCompare ==
    Shown("select_two_different") =>
        /\ ~Called("compare_stocks")
        /\ calls = <<"get_comprehensive_stock_data", "get_all_stocks_data">>

\* C7 witness: the same symbol on both sides, the button clicked, the warning shown.
C7_Witness ==
    /\ pc = "end"
    /\ event.kind = "compare"
    /\ stock1_symbol = stock2_symbol
    /\ Shown("select_two_different")

\* C13: no fault raised by a provider call leaves one of the three fetch
\* functions: the script never stops on an exception, and after a fault
\* get_comprehensive_stock_data has returned None (with its error shown),
\* get_all_stocks_data has returned its table and compare_stocks its tuple of
\* None (with the comparison error shown), the render going on to the step
\* that follows the call.
C13_FaultsCaught ==
    /\ pc # "crashed"
    /\ "get_comprehensive_stock_data" \in faulted =>
         /\ data = "None"
         /\ Shown("error_fetching")
         /\ Shown("unable_to_load")
         /\ pc \in {"tab2", "countdown", "tab3", "end"}
    /\ "get_all_stocks_data" \in faulted =>
         /\ Called("get_all_stocks_data")
         /\ pc \in {"countdown", "tab3", "end"}
    /\ "compare_stocks" \in faulted =>
         /\ Called("compare_stocks")
         /\ Shown("comparison_failed")
         /\ pc = "end"

\* C13 witness: a provider call raised in each of the three functions and the
\* script is at its last line.
C13_Witness ==
    /\ pc = "end"
    /\ faulted = {"get_comprehensive_stock_data", "get_all_stocks_data",
                  "compare_stocks"}
    /\ data = "None"

\* C14 (as claimed): in a render that found force_refresh set (after the load
\* button, a sector button or a symbol change), the condition of the rerun of
\* the last line is false, even if the elapsed time is at least the interval.
C14_NoTimerRerunAfterManualChange ==
    (pc = "end" /\ forced) => ~TimerFires

\* C15 (as claimed): a render started by the timer rerun does not end in the
\* timer rerun again.
C15_NoSecondTimerRerun ==
    (pc = "end" /\ event.kind = "timer") => ~TimerFires

\* C15 (amended): a render that ends in the timer rerun has refreshed and set
\* last_update to its own time, the render it starts measures the elapsed time
\* from that last_update, and it ends in the timer rerun again exactly when
\* that elapsed time is at least the interval: the chain of automatic reruns
\* goes on as long as each render decides at least one interval after the
\* render before it.
C15_ChainWhileRendersAreSlow ==
    /\ []((pc = "end" /\ TimerFires)
            => (should_refresh /\ session["last_update"] = current_time))
    /\ [][(pc = "decide" /\ pc' = "tab1" /\ event.kind = "timer")
            => (/\ Has(session, "last_update")
                /\ time_diff' = now - session["last_update"]
                /\ current_time' = now)]_vars
    /\ []((pc = "end" /\ event.kind = "timer")
            => (TimerFires <=> time_diff >= update_interval))

\* C15 witness: a render started by the timer rerun is at its last line and the
\* timer rerun fires again.
C15_Witness ==
    /\ pc = "end"
    /\ event.kind = "timer"
    /\ TimerFires
    /\ session["last_update"] = current_time

\* C16: selected_stock is in the session only between the sector button and
\* its use in the same render; that render tracks the button's symbol; a
\* render without a sector click uses the text input, and when that differs
\* from previous_stock it detects a change, sets force_refresh and refreshes.
C16_SelectionIsOneShot ==
    /\ [](Has(session, "selected_stock") => (pc = "select" /\ event.kind = "sector"))
    /\ [][(pc = "select" /\ pc' = "decide" /\ event.kind = "sector")
            => (/\ stock_symbol' = event.arg
                /\ session'["previous_stock"] = event.arg
                /\ ~Has(session', "selected_stock"))]_vars
    /\ [][(pc = "select" /\ pc' = "decide" /\ event.kind # "sector")
            => (/\ stock_symbol' = stock_input
                /\ session'["previous_stock"] = stock_input
                /\ (Has(session, "previous_stock")
                    /\ session["previous_stock"] # stock_input)
                   => (stock_changed' /\ session'["force_refresh"] = TRUE))]_vars
    /\ []((Decided /\ stock_changed) => (forced /\ should_refresh))

\* C16 witness: the render started by the timer rerun after a sector click is
\* back on the text-input symbol, sees it as a change and refreshes although
\* less than the interval has passed.
C16_Witness ==
    /\ pc = "end"
    /\ event.kind = "timer"
    /\ stock_symbol = stock_input
    /\ stock_changed
    /\ forced
    /\ should_refresh
    /\ time_diff < update_interval

(***************************************************************************)
(* SpecPerf: get_comprehensive_stock_data applied to one provider answer.  *)
(***************************************************************************)
Closes == 0..MaxPrice
Prices == 0..MaxPrice
Series(n) == UNION {[1..k -> Closes] : k \in 0..n}

PerfAnswers ==
    {Raising, NoQuote, Answer("history", "quote", 1, [p \in Periods |-> <<>>])}
    \cup {Quote(c, h) : c \in Prices, h \in Series(MaxHist)}

PerfInit ==
    /\ SessionInit
    /\ p_in \in {[symbol |-> "PETR4.SA", timeframe |-> t, resp |-> r] :
                   t \in Timeframes, r \in PerfAnswers}
    /\ p_out = <<>>
    /\ b_i = 0
    /\ b_resp = <<>>
    /\ all_data = <<>>
    /\ m_in = <<>>
    /\ m_out = <<>>

\* line 489: data = get_comprehensive_stock_data(stock_symbol, timeframe)
CallComprehensive ==
    /\ p_out = <<>>
    /\ p_in # <<>>
    /\ p_out' = <<get_comprehensive_stock_data(p_in.symbol, p_in.timeframe, p_in.resp)>>
    /\ UNCHANGED <<p_in, session_vars, local_vars, batch_vars, ma_vars>>

SpecPerf == PerfInit /\ [][CallComprehensive]_vars

(***************************************************************************)
(* SpecBatch: the loop of get_all_stocks_data, one ticker per step.        *)
(***************************************************************************)
MixedHist ==
    [p \in Periods |-> CASE p = "5d" -> <<0, 1>>
                         [] p = "1mo" -> <<>>
                         [] p = "ytd" -> <<2>>
                         [] OTHER -> <<1>>]
LoopAnswers ==
    {Raising, NoQuote, Answer("history", "quote", 1, [p \in Periods |-> <<1>>]),
     Quote(0, <<1>>), Answer("none", "quote", 1, MixedHist)}
    \cup {Quote(c, h) : c \in 1..MaxPrice, h \in {<<>>, <<0>>, <<2>>, <<1, 2>>}}

BatchInit ==
    /\ SessionInit
    /\ p_in = <<>>
    /\ p_out = <<>>
    /\ b_i = 1
    /\ b_resp = <<>>
    /\ all_data = <<>>
    /\ m_in = <<>>
    /\ m_out = <<>>

BatchRest == <<session_vars, stock_symbol, stock_changed, current_time, time_diff,
               should_refresh, forced, data, calls, faulted, perf_vars, ma_vars>>

\* the try block around the whole loop instead of inside it
BatchStepAbort ==
    /\ b_i >= 1
    /\ b_i <= Len(Portfolio)
    /\ \E resp \in LoopAnswers :
         /\ all_data' = all_data \o StockRows(Portfolio[b_i], resp)
         /\ b_resp' = Append(b_resp, resp)
         /\ b_i' = IF resp.fault # "none" THEN Len(Portfolio) + 1 ELSE b_i + 1
    /\ messages' = messages
    /\ UNCHANGED BatchRest

\* an st.warning in the except clause
BatchStepRecording ==
    /\ b_i >= 1
    /\ b_i <= Len(Portfolio)
    /\ \E resp \in LoopAnswers :
         /\ all_data' = all_data \o StockRows(Portfolio[b_i], resp)
         /\ b_resp' = Append(b_resp, resp)
         /\ messages' = IF resp.fault # "none"
                        THEN Append(messages, "failed_to_load") ELSE messages
    /\ b_i' = b_i + 1
    /\ UNCHANGED BatchRest

\* lines 147-199: one pass of the inner loop
BatchStep ==
    /\ b_i >= 1
    /\ b_i <= Len(Portfolio)
    /\ \E resp \in LoopAnswers :
         /\ all_data' = all_data \o StockRows(Portfolio[b_i], resp)
         /\ b_resp' = Append(b_resp, resp)
    /\ b_i' = b_i + 1
    /\ messages' = messages
    /\ UNCHANGED BatchRest

SpecBatch == BatchInit /\ [][BatchStep]_vars

(***************************************************************************)
(* The claims about the portfolio batch, checked under SpecBatch.          *)
(***************************************************************************)
\* a ticker loads when no call raises and its info has a regularMarketPrice
\* (the code tests the price for truth, so a price of 0 counts as no quote)
Loads(resp) == resp.fault = "none" /\ resp.info = "quote" /\ resp.price # 0
LoadsAt(i) == Loads(b_resp[i])
Positions == [i \in 1..Len(b_resp) |-> i]
Loaded == SelectSeq(Positions, LoadsAt)
BatchDone == b_i > Len(Portfolio)

\* C5: whatever tickers fail, the rows are those of the tickers that loaded, in
\* portfolio order, each with its own sector, symbol and price, and the loop
\* goes on to the last ticker.
C5_OthersKeepTheirRows ==
    /\ Len(all_data) = Len(Loaded)
    /\ \A j \in 1..Len(Loaded) :
         /\ all_data[j].Setor = Portfolio[Loaded[j]][1]
         /\ all_data[j].Simbolo = Portfolio[Loaded[j]][2]
         /\ all_data[j].Preco = b_resp[Loaded[j]].price
    /\ Len(b_resp) = b_i - 1
    /\ BatchDone => Len(b_resp) = Len(Portfolio)

\* C5 witness: the first ticker raises, the third has no quote, the second and
\* the fourth load and have the two rows.
C5_Witness ==
    /\ BatchDone
    /\ b_resp[1].fault = "info"
    /\ b_resp[3].info = "noprice"
    /\ Loaded = <<2, 4>>
    /\ Len(all_data) = 2
    /\ all_data[1].Simbolo = Portfolio[2][2]
    /\ all_data[2].Simbolo = Portfolio[4][2]

OneFails == BatchDone /\ Len(Loaded) = Len(Portfolio) - 1

\* C6 (as claimed): when one ticker of the batch fails, the failure is recorded.
C6_FailureRecorded == OneFails => messages # <<>>

\* C6 (amended): when one ticker of the batch fails, the result holds exactly
\* the rows of the others, and nothing records the failure: no message is
\* shown and the failed ticker appears nowhere in the result.
C6_FailureSkippedSilently ==
    OneFails =>
        /\ Len(all_data) = Len(Portfolio) - 1
        /\ \A j \in 1..Len(Loaded) :
             <<all_data[j].Setor, all_data[j].Simbolo>> = Portfolio[Loaded[j]]
        /\ \A i \in 1..Len(Portfolio) :
             ~LoadsAt(i) => \A j \in 1..Len(all_data) :
                               <<all_data[j].Setor, all_data[j].Simbolo>> # Portfolio[i]
        /\ messages = <<>>

\* C6 witness: the second ticker raises, the others load.
C6_Witness ==
    /\ OneFails
    /\ b_resp[2].fault = "info"
    /\ Loaded = <<1, 3, 4>>
    /\ Len(all_data) = 3

\* C10 (as claimed): no window performance of a row is a number when its
\* series is empty or too short, and none is a division by a close that is
\* zero or negative.
RowWindows == {"perf_5d", "perf_30d", "perf_ytd", "perf_1y"}
WindowPeriod(w) ==
    CASE w = "perf_5d" -> "5d"
      [] w = "perf_30d" -> "1mo"
      [] w = "perf_ytd" -> "ytd"
      [] OTHER -> "1y"
C10_AbsentNotZero ==
    \A j \in 1..Len(Loaded) : \A w \in RowWindows :
        LET hist == b_resp[Loaded[j]].hist[WindowPeriod(w)]
        IN  /\ Len(hist) = 0 => all_data[j][w] # Zero
            /\ all_data[j][w].den > 0

\* lines 546-550: the rows shown and exported under the sector filter
FilterBySector(df, selected_sector) ==
    IF selected_sector # "Todos"
    THEN SelectSeq(df, LAMBDA row : row.Setor = selected_sector)
    ELSE df

\* lines 533-534 and 565: filtered_df.to_csv, one line per row of the table
ExportedRows == FilterBySector(all_data, Get(session, "selected_sector", "Todos"))

\* C12 (as claimed): whatever tickers load, no ticker symbol is in more than
\* one row of the exported table.
C12_OneRowPerTicker ==
    BatchDone =>
        \A i, j \in 1..Len(ExportedRows) :
            ExportedRows[i].Simbolo = ExportedRows[j].Simbolo => i = j

(***************************************************************************)
(* The claims about the window performance, checked under SpecPerf.        *)
(***************************************************************************)
Returned == p_out # <<>> /\ p_out[1].ret = "dict"
Windows == {"5d", "30d", "YTD", "LTM"}
Key(timeframe) ==
    CASE timeframe = "5d" -> "5d"
      [] timeframe = "30d" -> "30d"
      [] timeframe = "YTD" -> "ytd"
      [] OTHER -> "ltm"
InHist == p_in.resp.hist[period_map(p_in.timeframe)]

\* C8 (as claimed): for the 5-day window the baseline is the close 6 points
\* back when the series has at least 6 points and the earliest close
\* otherwise, so that a series of 3 points with a positive first close gives
\* (c - p0) / p0 * 100.
ClaimedFiveDayBaseline(hist) ==
    IF Len(hist) >= 6 THEN hist[Len(hist) - 5] ELSE hist[1]
C8_ShortSeriesUsesEarliest ==
    (Returned /\ p_in.timeframe = "5d" /\ p_in.resp.price > 0 /\ Len(InHist) >= 1
       /\ ClaimedFiveDayBaseline(InHist) > 0)
    => /\ DOMAIN p_out[1].performance = {"5d"}
       /\ p_out[1].performance["5d"] =
              Pct(p_in.resp.price, ClaimedFiveDayBaseline(InHist))

\* C8 (amended): for the 5-day window and a current price above 0, the baseline
\* is the close 6 points back when the series has at least 6 points and the
\* earliest close when it has exactly 5; a positive baseline gives
\* (c - b) / b * 100; a series of fewer than 5 points gives no performance.
C8_FiveDayBaseline ==
    (Returned /\ p_in.timeframe = "5d" /\ p_in.resp.price > 0)
    => LET n == Len(InHist)
           perf == p_out[1].performance
       IN  /\ n >= 6 /\ InHist[n - 5] > 0
                => DOMAIN perf = {"5d"}
                   /\ perf["5d"] = Pct(p_in.resp.price, InHist[n - 5])
           /\ n = 5 /\ InHist[1] > 0
                => DOMAIN perf = {"5d"}
                   /\ perf["5d"] = Pct(p_in.resp.price, InHist[1])
           /\ n < 5 => perf = EmptyDict

\* C8 witness: three points, the first above 0, a price above 0, no performance.
C8_Witness ==
    /\ Returned
    /\ p_in.timeframe = "5d"
    /\ p_in.resp.price > 0
    /\ Len(InHist) = 3
    /\ InHist[1] > 0
    /\ p_out[1].performance = EmptyDict

MinPoints(timeframe) == IF timeframe = "5d" THEN 5 ELSE 1
Baseline(timeframe, hist) ==
    IF timeframe = "5d" /\ Len(hist) >= 6 THEN hist[Len(hist) - 5] ELSE hist[1]

\* C9 (as claimed): for each of the four windows, every current price and every
\* series with enough points and a baseline above 0, the performance is
\* (c - b) / b * 100.
C9_EveryPrice ==
    (Returned /\ p_in.timeframe \in Windows
       /\ Len(InHist) >= MinPoints(p_in.timeframe)
       /\ Baseline(p_in.timeframe, InHist) > 0)
    => /\ DOMAIN p_out[1].performance = {Key(p_in.timeframe)}
       /\ p_out[1].performance[Key(p_in.timeframe)] =
              Pct(p_in.resp.price, Baseline(p_in.timeframe, InHist))

\* C9 (amended): for each of the four windows, every current price above 0 and
\* every series with enough points and a baseline above 0, the performance is
\* (c - b) / b * 100; when the price or the baseline is not above 0, or the
\* series is shorter than the window's minimum, there is no performance.
C9_PositivePrice ==
    (Returned /\ p_in.timeframe \in Windows)
    => LET enough == Len(InHist) >= MinPoints(p_in.timeframe)
           perf == p_out[1].performance
       IN  IF enough /\ p_in.resp.price > 0 /\ Baseline(p_in.timeframe, InHist) > 0
           THEN /\ DOMAIN perf = {Key(p_in.timeframe)}
                /\ perf[Key(p_in.timeframe)] =
                       Pct(p_in.resp.price, Baseline(p_in.timeframe, InHist))
           ELSE perf = EmptyDict

\* C9 witness: the year-to-date window, baseline 1, price 2: 100 percent.
C9_Witness ==
    /\ Returned
    /\ p_in.timeframe = "YTD"
    /\ p_in.resp.price = 2
    /\ Len(InHist) >= 2
    /\ InHist[1] = 1
    /\ p_out[1].performance = [k \in {"ytd"} |-> [num |-> 100, den |-> 1]]

(***************************************************************************)
(* SpecMA: the technical-analysis block of display_comprehensive_dashboard *)
(* applied to one price series.  A mean is kept as the exact fraction      *)
(* [sum |-> s, n |-> w]; NaN is the mean pandas leaves undefined.          *)
(***************************************************************************)
NaN == [sum |-> 0, n |-> 0]

RECURSIVE SumCloses(_, _, _)
SumCloses(closes, from, to) ==
    IF from > to THEN 0 ELSE closes[to] + SumCloses(closes, from, to - 1)

\* Series.rolling(window=window).mean(): undefined until window points are there
RollingMean(closes, window) ==
    [i \in 1..Len(closes) |->
        IF i < window THEN NaN
        ELSE [sum |-> SumCloses(closes, i - window + 1, i), n |-> window]]

\* Series.isna().all()
AllNaN(ma) == \A i \in 1..Len(ma) : ma[i] = NaN

\* line 429: not hist_data.empty and len(hist_data) > 20
EnoughPointsAny(closes) == Len(closes) > 0
EnoughPoints(closes) == Len(closes) > TechMinPoints

\* lines 427-457
TechnicalAnalysis(closes) ==
    IF EnoughPoints(closes)
    THEN LET MA20 == RollingMean(closes, MA20Window)
             MA50 == RollingMean(closes, Min(MA50Window, Len(closes)))
         IN  [shown |-> "chart", MA20 |-> MA20, MA50 |-> MA50,
              traces |-> {"Price"}
                         \cup (IF ~AllNaN(MA20) THEN {"MA20"} ELSE {})
                         \cup (IF ~AllNaN(MA50) THEN {"MA50"} ELSE {})]
    ELSE [shown |-> IF Len(closes) # 0 THEN "need_more_data" ELSE "nothing",
          MA20 |-> <<>>, MA50 |-> <<>>, traces |-> {}]

\* the series drawn: closes of 1 with at most one close of MaxPrice
Spike(n, k) == [i \in 1..n |-> IF i = k THEN MaxPrice ELSE 1]
MASeries == {Spike(n, k) : n \in 0..MaxSeries, k \in 0..MaxSeries}

MAInit ==
    /\ SessionInit
    /\ p_in = <<>>
    /\ p_out = <<>>
    /\ b_i = 0
    /\ b_resp = <<>>
    /\ all_data = <<>>
    /\ m_in \in MASeries
    /\ m_out = <<>>

\* line 494, the last block of display_comprehensive_dashboard(data)
CallTechnicalAnalysis ==
    /\ m_out = <<>>
    /\ m_out' = <<TechnicalAnalysis(m_in)>>
    /\ UNCHANGED <<m_in, session_vars, local_vars, perf_vars, batch_vars>>

SpecMA == MAInit /\ [][CallTechnicalAnalysis]_vars

(***************************************************************************)
(* The claim about the moving averages, checked under SpecMA.              *)
(***************************************************************************)
Analysed == m_out # <<>>

\* the sum of the closes from..to of a series of 1s and MaxPrices, by counting
WindowTotal(closes, from, to) ==
    Cardinality({j \in from..to : closes[j] = 1})
    + MaxPrice * Cardinality({j \in from..to : closes[j] = MaxPrice})
MeanOf(closes, from, to) ==
    [sum |-> WindowTotal(closes, from, to), n |-> to - from + 1]

\* C11 (as claimed): for a series shorter than the 20-point window, MA(20) is
\* produced and its last value is the mean of all the closes of the series.
C11_ShortSeriesCapped ==
    (Analysed /\ Len(m_in) >= 1 /\ Len(m_in) < MA20Window)
    => /\ Len(m_out[1].MA20) = Len(m_in)
       /\ m_out[1].MA20[Len(m_in)] = MeanOf(m_in, 1, Len(m_in))

\* C11 (amended): a series of 20 points or fewer gives no moving average at
\* all, only the notice that more data is needed; a longer series gives MA(20)
\* with a window of exactly 20 (undefined for the first 19 points, never a
\* shorter mean) and MA(50) with a window capped to the series length.
C11_OnlyMA50Capped ==
    Analysed =>
        LET n == Len(m_in)
            r == m_out[1]
            w50 == Min(MA50Window, n)
        IN  IF n <= TechMinPoints
            THEN /\ r.MA20 = <<>>
                 /\ r.MA50 = <<>>
                 /\ r.traces = {}
                 /\ r.shown = IF n = 0 THEN "nothing" ELSE "need_more_data"
            ELSE /\ r.shown = "chart"
                 /\ r.traces = {"Price", "MA20", "MA50"}
                 /\ Len(r.MA20) = n
                 /\ Len(r.MA50) = n
                 /\ \A i \in 1..n :
                      /\ r.MA20[i] = IF i < MA20Window THEN NaN
                                     ELSE MeanOf(m_in, i - MA20Window + 1, i)
                      /\ r.MA50[i] = IF i < w50 THEN NaN
                                     ELSE MeanOf(m_in, i - w50 + 1, i)

\* C11 witness: 15 points, one of them high: the notice and no average.
C11_Witness ==
    /\ Analysed
    /\ Len(m_in) = 15
    /\ m_in[3] = MaxPrice
    /\ m_out[1].shown = "need_more_data"
    /\ m_out[1].MA20 = <<>>

====
